---- MODULE Spec2Model ----
(***************************************************************************)
(* LoFi-Turtle playback: the PlaybackState sequencer (models/playback.rs), *)
(* the AudioPlayer audio thread (audio/player.rs), the App that drives it  *)
(* (ui/app.rs, services/tui_service.rs) and the GaplessPlayer control      *)
(* thread (audio/gapless_player.rs); and the playlists: the Playlist       *)
(* entity (domain/entities/playlist.rs), the playlist use cases            *)
(* (application/use_cases/playlist_management.rs) and the two SQLite       *)
(* repositories they write to (infrastructure/repositories).               *)
(*                                                                         *)
(* Volumes are f32 in the source; here they are integers in tenths         *)
(* (0.7 is 7, 1.7 is 17, -0.3 is -3).  Option<usize> is <<>> for None and  *)
(* <<i>> for Some(i).  A playlist position is 0-based as in the source; a  *)
(* TLA+ sequence is 1-based, so position i is element i + 1.               *)
(***************************************************************************)
EXTENDS Integers, Sequences, FiniteSets, TLC

\* Largest playlist size explored.
MaxSongs == 3
\* Most commands sent to a player in one run.
MaxSends == 3
\* Most songs the App's library (and its playlist) holds.
MaxLibrary == 2
\* Number of distinct song identities.
MaxSongIds == 3
\* Latest reading of the clock (Utc::now()).
MaxClock == 2
\* Most songs handed to a PlaylistBuilder.
MaxBuild == 2
\* Most playlist ids generated in one run.
MaxPlaylists == 2
\* Most use case executions and repository calls in one run.
MaxCalls == 4

VARIABLES
    ps,        \* a PlaybackState (models/playback.rs:27-40)
    op,        \* SpecSeq: the PlaybackState method called last
    argN,      \* SpecSeq: the playlist_size passed to it
    ret,       \* SpecSeq: what it returned (an Option<usize>), <<>> for a unit method
    pass,      \* SpecSeq: the next_song_index results since the last enable_shuffle
    chan,      \* the mpsc channel of PlayerCommand, oldest first (audio/player.rs:62)
    sink,      \* the audio thread's `sink: Option<Sink>` (audio/player.rs:97)
    status,    \* the shared PlaybackStatus (audio/player.rs:35-41)
    nsent,     \* how many commands have been sent so far
    apc,       \* where the audio thread is in its loop: "drain", "check", "sleep"
    cycle,     \* what the audio thread's current drain cycle has done so far
    app,       \* the App's AppState fields that select what plays (ui/app.rs:34-55)
    obs,       \* SpecApp: what has happened since the last track end and shuffle toggle
    gp,        \* the GaplessPlayer: event channel, sink, current_song, playlist, thread
    gobs,      \* SpecGapless: what the control thread's last step did
    pl,        \* SpecPlaylist: a Playlist entity (domain/entities/playlist.rs:8-15)
    now,       \* SpecPlaylist: the latest reading of Utc::now()
    eres,      \* SpecPlaylist: the Playlist method called last and its result
    db,        \* SpecStore: the SQLite database behind the repositories
    ures       \* SpecStore: the use case or repository call made last and its result

seqVars == <<ps, op, argN, ret, pass>>
audioVars == <<chan, nsent, sink, status, apc, cycle>>
appVars == <<app, obs>>
gapVars == <<gp, gobs>>
entVars == <<pl, now, eres>>
storeVars == <<db, ures>>
vars == <<ps, op, argN, ret, pass, chan, nsent, sink, status, apc, cycle, app, obs, gp, gobs,
          pl, now, eres, db, ures>>

-----------------------------------------------------------------------------
(* Option<usize> *)
NoneOpt == <<>>
Some(i) == <<i>>

RepeatModes == {"None", "Single", "Playlist"}

\* 0..n-1 in order, (0..n).collect()
Range0(n) == [i \in 1..n |-> i - 1]

\* Every outcome of indices.shuffle(&mut rng()) on (0..n).collect()
Shuffles(n) == {p \in [1..n -> 0..(n - 1)] : \A i, j \in 1..n : p[i] = p[j] => i = j}

\* iter().position(|&x| x == v): the first 1-based place of v in s, 0 when absent
Position(s, v) ==
    IF \E i \in 1..Len(s) : s[i] = v
    THEN CHOOSE i \in 1..Len(s) : s[i] = v /\ \A j \in 1..(i - 1) : s[j] # v
    ELSE 0

\* Vec::remove(pos), pos 1-based
RemoveAt(s, pos) == [i \in 1..(Len(s) - 1) |-> IF i < pos THEN s[i] ELSE s[i + 1]]

\* PlaybackState::default()
DefaultPlaybackState ==
    [shuffle |-> FALSE, repeat_mode |-> "None", current_song_index |-> 0,
     is_playing |-> FALSE, is_paused |-> FALSE, volume |-> 7,
     shuffle_queue |-> <<>>, original_order |-> <<>>]

\* PlaybackState::cycle_repeat_mode
cycle_repeat_mode(s) ==
    [s EXCEPT !.repeat_mode = CASE s.repeat_mode = "None" -> "Single"
                                [] s.repeat_mode = "Single" -> "Playlist"
                                [] OTHER -> "None"]

\* An enable_shuffle that leaves the current index in the queue
enable_shuffle_KeepCurrent(s, n, p) ==
    IF n = 0 THEN s
    ELSE [s EXCEPT !.original_order = Range0(n), !.shuffle_queue = p]

\* PlaybackState::enable_shuffle; p is the outcome of the random shuffle
enable_shuffle(s, n, p) ==
    IF n = 0 THEN s
    ELSE LET pos == Position(p, s.current_song_index)
             indices == IF pos # 0 THEN RemoveAt(p, pos) ELSE p
         IN  [s EXCEPT !.original_order = Range0(n), !.shuffle_queue = indices]

disable_shuffle_KeepQueue(s) == [s EXCEPT !.original_order = <<>>]

\* PlaybackState::disable_shuffle
disable_shuffle(s) == [s EXCEPT !.shuffle_queue = <<>>, !.original_order = <<>>]

\* PlaybackState::toggle_shuffle
toggle_shuffle(s, n, p) ==
    LET t == [s EXCEPT !.shuffle = ~s.shuffle]
    IN  IF t.shuffle THEN enable_shuffle(t, n, p) ELSE disable_shuffle(t)

\* next_song_index, lines 149-164: the `let next_index = if self.shuffle {..} else {..}`.
\* end is TRUE for the early `return None` of line 159.
next_index_of(s, n, p) ==
    IF s.shuffle
    THEN IF s.shuffle_queue # <<>>
         THEN [end |-> FALSE, next |-> Head(s.shuffle_queue),
               st |-> [s EXCEPT !.shuffle_queue = Tail(s.shuffle_queue)]]
         ELSE IF s.repeat_mode = "Playlist"
              THEN LET e == enable_shuffle(s, n, p)
                   IN  IF e.shuffle_queue # <<>>
                       THEN [end |-> FALSE, next |-> Head(e.shuffle_queue),
                             st |-> [e EXCEPT !.shuffle_queue = Tail(e.shuffle_queue)]]
                       ELSE [end |-> FALSE, next |-> 0, st |-> e]
              ELSE [end |-> TRUE, next |-> 0, st |-> s]
    ELSE [end |-> FALSE, next |-> (s.current_song_index + 1) % n, st |-> s]

\* next_song_index, lines 166-170: the end-of-playlist test on the chosen index
end_of_playlist(s, n, next) ==
    /\ s.repeat_mode = "None"
    /\ ~s.shuffle
    /\ next = 0
    /\ s.current_song_index = n - 1

\* A next_song_index that forgets the Single arm of its match
next_song_index_NoSingleArm(s, n, p) ==
    IF n = 0 THEN [ret |-> NoneOpt, st |-> s]
    ELSE LET r == next_index_of(s, n, p)
         IN  IF r.end \/ end_of_playlist(s, n, r.next)
             THEN [ret |-> NoneOpt, st |-> r.st]
             ELSE [ret |-> Some(r.next), st |-> r.st]

\* A next_song_index that ends the playlist at the last track under every repeat mode
next_song_index_NoWrap(s, n, p) ==
    IF n = 0 THEN [ret |-> NoneOpt, st |-> s]
    ELSE IF s.repeat_mode = "Single" THEN [ret |-> Some(s.current_song_index), st |-> s]
    ELSE LET r == next_index_of(s, n, p)
         IN  IF r.end \/ (~s.shuffle /\ r.next = 0 /\ s.current_song_index = n - 1)
             THEN [ret |-> NoneOpt, st |-> r.st]
             ELSE [ret |-> Some(r.next), st |-> r.st]

\* A next_song_index that matches on the repeat mode before it tests for an
\* empty playlist
next_song_index_SingleFirst(s, n, p) ==
    IF s.repeat_mode = "Single" THEN [ret |-> Some(s.current_song_index), st |-> s]
    ELSE IF n = 0 THEN [ret |-> NoneOpt, st |-> s]
    ELSE LET r == next_index_of(s, n, p)
         IN  IF r.end \/ end_of_playlist(s, n, r.next)
             THEN [ret |-> NoneOpt, st |-> r.st]
             ELSE [ret |-> Some(r.next), st |-> r.st]

\* A next_song_index that commits the position it returns
next_song_index_Committing(s, n, p) ==
    IF n = 0 THEN [ret |-> NoneOpt, st |-> s]
    ELSE IF s.repeat_mode = "Single" THEN [ret |-> Some(s.current_song_index), st |-> s]
    ELSE LET r == next_index_of(s, n, p)
         IN  IF r.end \/ end_of_playlist(s, n, r.next)
             THEN [ret |-> NoneOpt, st |-> r.st]
             ELSE [ret |-> Some(r.next),
                   st |-> [r.st EXCEPT !.current_song_index = r.next]]

\* PlaybackState::next_song_index: [ret |-> the Option returned, st |-> the state after]
next_song_index(s, n, p) ==
    IF n = 0 THEN [ret |-> NoneOpt, st |-> s]
    ELSE IF s.repeat_mode = "Single" THEN [ret |-> Some(s.current_song_index), st |-> s]
    ELSE LET r == next_index_of(s, n, p)
         IN  IF r.end \/ end_of_playlist(s, n, r.next)
             THEN [ret |-> NoneOpt, st |-> r.st]
             ELSE [ret |-> Some(r.next), st |-> r.st]

\* A previous_song_index that, with shuffle on, takes its result from the
\* shuffle queue
previous_song_index_FromQueue(s, n) ==
    IF n = 0 THEN [ret |-> NoneOpt, st |-> s]
    ELSE IF s.repeat_mode = "Single" THEN [ret |-> Some(s.current_song_index), st |-> s]
    ELSE IF s.shuffle /\ s.shuffle_queue # <<>>
         THEN [ret |-> Some(Head(s.shuffle_queue)),
               st |-> [s EXCEPT !.shuffle_queue = Tail(s.shuffle_queue)]]
         ELSE [ret |-> Some(IF s.current_song_index = 0 THEN n - 1
                            ELSE s.current_song_index - 1),
               st |-> s]

\* PlaybackState::previous_song_index
previous_song_index(s, n) ==
    IF n = 0 THEN [ret |-> NoneOpt, st |-> s]
    ELSE IF s.repeat_mode = "Single" THEN [ret |-> Some(s.current_song_index), st |-> s]
    ELSE LET prev == IF s.shuffle
                     THEN IF s.current_song_index = 0 THEN n - 1
                          ELSE s.current_song_index - 1
                     ELSE IF s.current_song_index = 0 THEN n - 1
                          ELSE s.current_song_index - 1
         IN  [ret |-> Some(prev), st |-> s]

\* PlaybackState::set_current_song_index
set_current_song_index(s, index, n, p) ==
    LET t == [s EXCEPT !.current_song_index = index]
    IN  IF t.shuffle /\ t.shuffle_queue = <<>> /\ n > 0
        THEN enable_shuffle(t, n, p)
        ELSE t

\* SpecSeq's record of a shuffle pass when none is being followed
NoPass == [on |-> FALSE, n |-> 0, rets |-> <<>>]

\* AppState::default() with n songs loaded by load_songs
NewApp(n) ==
    [filtered_songs |-> [i \in 1..n |-> i], selected_song_index |-> 0,
     active_panel |-> "Songs", view_mode |-> "Library"]

\* The app variables of a specification that has no App
AppIdle ==
    /\ app = NewApp(0)
    /\ obs = [adv |-> "idle", pass |-> <<>>, passOn |-> FALSE]

\* GaplessPlayer::new: a fresh sink (empty, not paused, volume 1.0), no
\* current song, an empty playlist, nothing sent, the control thread at the
\* top of its loop
NewGapless ==
    [events |-> <<>>, nsent |-> 0,
     sink |-> [empty |-> TRUE, paused |-> FALSE, volume |-> 10],
     current_song |-> NoneOpt, playlist |-> <<>>, pc |-> "events"]

\* Nothing to report about the control thread's last step
NoGobs == [failed |-> FALSE, before |-> 0, afterStop |-> FALSE]

\* The gapless variables of a specification that has no GaplessPlayer
GaplessIdle ==
    /\ gp = [NewGapless EXCEPT !.pc = "off"]
    /\ gobs = NoGobs

-----------------------------------------------------------------------------
(* The Playlist entity, domain/entities/playlist.rs.                       *)
(* A String is the sequence of its characters; the description is left     *)
(* out.  A SongId is a number in SongIds, a PlaylistId a positive number.  *)

\* The song identities there are.
SongIds == 1..MaxSongIds

\* The names a caller may pass: "a", " a", "a ", "b", " " and "".
Names == {<<"a">>, <<" ", "a">>, <<"a", " ">>, <<"b">>, <<" ">>, <<>>}

\* str::trim_start: drop the leading white space
RECURSIVE trim_start(_)
trim_start(s) == IF s # <<>> /\ Head(s) = " " THEN trim_start(Tail(s)) ELSE s

\* str::trim_end: drop the trailing white space
RECURSIVE trim_end(_)
trim_end(s) ==
    IF s # <<>> /\ s[Len(s)] = " " THEN trim_end(SubSeq(s, 1, Len(s) - 1)) ELSE s

\* str::trim
trim(s) == trim_end(trim_start(s))

\* Vec::insert(pos, v), pos 1-based
InsertAt(s, pos, v) ==
    [i \in 1..(Len(s) + 1) |-> IF i < pos THEN s[i] ELSE IF i = pos THEN v ELSE s[i - 1]]

\* The entity variable of a state that holds no Playlist
NoPlaylist ==
    [id |-> 0, name |-> <<>>, song_ids |-> <<>>, created_at |-> 0, updated_at |-> 0]

\* Ok(..) of a DomainResult, with the playlist as the call leaves it
DomainOk(p) == [ok |-> TRUE, err |-> "", playlist |-> p]

\* Err(e) of a DomainResult, with the playlist as the call leaves it
DomainErr(e, p) == [ok |-> FALSE, err |-> e, playlist |-> p]

\* Playlist::new(name, _) when PlaylistId::new() gives id and Utc::now() gives t
Playlist_new(id, name, t) ==
    IF trim(name) = <<>> THEN DomainErr("InvalidPlaylistName", NoPlaylist)
    ELSE IF Len(name) > 100 THEN DomainErr("InvalidPlaylistName", NoPlaylist)
    ELSE DomainOk([id |-> id, name |-> trim(name), song_ids |-> <<>>,
                   created_at |-> t, updated_at |-> t])

\* Playlist::from_existing(id, name, _, song_ids, created_at, updated_at)
from_existing(id, name, song_ids, created_at, updated_at) ==
    IF trim(name) = <<>> THEN DomainErr("InvalidPlaylistName", NoPlaylist)
    ELSE DomainOk([id |-> id, name |-> trim(name), song_ids |-> song_ids,
                   created_at |-> created_at, updated_at |-> updated_at])

\* Playlist::contains_song
contains_song(p, song_id) == \E i \in 1..Len(p.song_ids) : p.song_ids[i] = song_id

add_song_Unchecked(p, song_id, t) ==
    DomainOk([p EXCEPT !.song_ids = Append(@, song_id), !.updated_at = t])

\* Playlist::add_song when Utc::now() gives t
add_song(p, song_id, t) ==
    IF contains_song(p, song_id) THEN DomainErr("BusinessRuleViolation", p)
    ELSE DomainOk([p EXCEPT !.song_ids = Append(@, song_id), !.updated_at = t])

\* Playlist::remove_song when Utc::now() gives t
remove_song(p, song_id, t) ==
    LET kept == SelectSeq(p.song_ids, LAMBDA id : id # song_id)
    IN  IF Len(kept) = Len(p.song_ids)
        THEN DomainErr("SongNotFound", [p EXCEPT !.song_ids = kept])
        ELSE DomainOk([p EXCEPT !.song_ids = kept, !.updated_at = t])

\* Playlist::move_song, both indexes 0-based, when Utc::now() gives t
move_song(p, from_index, to_index, t) ==
    IF from_index >= Len(p.song_ids) \/ to_index >= Len(p.song_ids)
    THEN DomainErr("BusinessRuleViolation", p)
    ELSE LET song_id == p.song_ids[from_index + 1]
             rest == RemoveAt(p.song_ids, from_index + 1)
         IN  DomainOk([p EXCEPT !.song_ids = InsertAt(rest, to_index + 1, song_id),
                                !.updated_at = t])

\* Playlist::clear when Utc::now() gives t
clear(p, t) == [p EXCEPT !.song_ids = <<>>, !.updated_at = t]

\* The loop of PlaylistBuilder::build: push each song the playlist lacks
RECURSIVE push_missing(_, _)
push_missing(p, ids) ==
    IF ids = <<>> THEN p
    ELSE push_missing(IF contains_song(p, Head(ids)) THEN p
                      ELSE [p EXCEPT !.song_ids = Append(@, Head(ids))],
                      Tail(ids))

\* PlaylistBuilder::build for a builder holding name (an Option) and
\* song_ids, when PlaylistId::new() gives id and Utc::now() gives t
PlaylistBuilder_build(id, name, song_ids, t) ==
    IF name = NoneOpt THEN DomainErr("InvalidPlaylistName", NoPlaylist)
    ELSE LET r == Playlist_new(id, name[1], t)
         IN  IF r.ok THEN DomainOk(push_missing(r.playlist, song_ids)) ELSE r

\* The song lists a PlaylistBuilder may have been given, repeats included
BuilderInputs == UNION {[1..k -> SongIds] : k \in 0..MaxBuild}

\* Nothing called yet
NoCall == [op |-> "none", arg |-> 0, ok |-> TRUE]

\* The entity variables of a specification that has no Playlist entity
EntityIdle ==
    /\ pl = NoPlaylist
    /\ now = 0
    /\ eres = NoCall

\* SpecPlaylist starts with a playlist from Playlist::new or from
\* PlaylistBuilder::build
EntityInit ==
    /\ now = 0
    /\ \E name \in Names :
          \/ /\ Playlist_new(1, name, 0).ok
             /\ pl = Playlist_new(1, name, 0).playlist
             /\ eres = [op |-> "new", arg |-> 0, ok |-> TRUE]
          \/ \E ids \in BuilderInputs :
                /\ PlaylistBuilder_build(1, Some(name), ids, 0).ok
                /\ pl = PlaylistBuilder_build(1, Some(name), ids, 0).playlist
                /\ eres = [op |-> "build", arg |-> 0, ok |-> TRUE]

\* Any caller calls add_song
EntAddSong ==
    \E song_id \in SongIds : \E t \in now..MaxClock :
        LET r == add_song(pl, song_id, t)
        IN  /\ pl' = r.playlist
            /\ now' = t
            /\ eres' = [op |-> "add_song", arg |-> song_id, ok |-> r.ok]

\* Any caller calls remove_song
EntRemoveSong ==
    \E song_id \in SongIds : \E t \in now..MaxClock :
        LET r == remove_song(pl, song_id, t)
        IN  /\ pl' = r.playlist
            /\ now' = t
            /\ eres' = [op |-> "remove_song", arg |-> song_id, ok |-> r.ok]

\* Any caller calls move_song
EntMoveSong ==
    \E from_index \in 0..MaxSongIds : \E to_index \in 0..MaxSongIds :
      \E t \in now..MaxClock :
        LET r == move_song(pl, from_index, to_index, t)
        IN  /\ pl' = r.playlist
            /\ now' = t
            /\ eres' = [op |-> "move_song", arg |-> from_index, ok |-> r.ok]

\* Any caller calls clear
EntClear ==
    \E t \in now..MaxClock :
        /\ pl' = clear(pl, t)
        /\ now' = t
        /\ eres' = [op |-> "clear", arg |-> 0, ok |-> TRUE]

-----------------------------------------------------------------------------
(* The SQLite repositories and the playlist use cases:                     *)
(* infrastructure/repositories/sqlite_playlist_repository.rs,              *)
(* sqlite_playlist_song_repository.rs, sqlite_song_repository.rs and       *)
(* application/use_cases/playlist_management.rs.                           *)
(* The database is a record of its tables, each the set of its rows; the   *)
(* description and timestamp columns are left out.  Whether SQLite         *)
(* enforces foreign keys is fixed by how it was built (no PRAGMA is        *)
(* issued), so it is a flag of the database chosen at the start.  minted   *)
(* is how many ids PlaylistId::new() has produced.                         *)

\* The playlist ids a request may name.
PlaylistIds == 1..MaxPlaylists

\* The database after the three initialize_schema calls, before any row
EmptyDb(fk, songs) ==
    [foreign_keys |-> fk, playlists |-> {}, songs |-> songs,
     playlist_songs |-> {}, minted |-> 0]

\* Ok(..) of a repository or use case Result, with the database it leaves
StoreOk(d) == [ok |-> TRUE, err |-> "", db |-> d]

\* Err(e) of a repository or use case Result, with the database it leaves
StoreErr(e, d) == [ok |-> FALSE, err |-> e, db |-> d]

\* PlaylistRepository::exists_by_name: COUNT(*) WHERE name = ?1
exists_by_name(d, name) == \E r \in d.playlists : r.name = name

\* PlaylistRepository::save: INSERT OR REPLACE removes the rows that hold
\* the id (PRIMARY KEY) or the name (UNIQUE) and inserts the new row; with
\* foreign keys enforced, the removed rows take their playlist_songs rows
\* with them (ON DELETE CASCADE)
save(d, p) ==
    LET replaced == {r \in d.playlists : r.id = p.id \/ r.name = p.name}
        gone == IF d.foreign_keys THEN {r.id : r \in replaced} ELSE {}
    IN  [d EXCEPT !.playlists = (@ \ replaced) \cup {[id |-> p.id, name |-> p.name]},
                  !.playlist_songs = {r \in @ : r.playlist_id \notin gone}]

\* row_to_playlist: the entity of a playlists row, its song list empty
row_to_playlist(row) == from_existing(row.id, row.name, <<>>, 0, 0)

\* PlaylistRepository::find_by_id: <<>> for None, <<playlist>> for Some
find_by_id(d, id) ==
    IF \E r \in d.playlists : r.id = id
    THEN Some(row_to_playlist(CHOOSE r \in d.playlists : r.id = id).playlist)
    ELSE NoneOpt

\* SongRepository::find_by_id, as far as the use case looks at it
song_find_by_id(d, song_id) == IF song_id \in d.songs THEN Some(song_id) ELSE NoneOpt

\* PlaylistSongRepository::add_song_to_playlist: in one transaction, move
\* the rows at or after position up by one, then INSERT OR REPLACE the row
\* of (playlist_id, song_id); a foreign key failure rolls both back
add_song_to_playlist(d, playlist_id, song_id, position) ==
    LET shifted ==
            {[r EXCEPT !.position = IF r.playlist_id = playlist_id /\ r.position >= position
                                     THEN @ + 1 ELSE @] : r \in d.playlist_songs}
        kept == {r \in shifted : ~(r.playlist_id = playlist_id /\ r.song_id = song_id)}
    IN  IF /\ d.foreign_keys
           /\ \/ playlist_id \notin {r.id : r \in d.playlists}
              \/ song_id \notin d.songs
        THEN StoreErr("Repository", d)
        ELSE StoreOk([d EXCEPT !.playlist_songs =
                 kept \cup {[playlist_id |-> playlist_id, song_id |-> song_id,
                             position |-> position]}])

\* PlaylistSongRepository::remove_song_from_playlist: delete the row if
\* there is one and move the rows after it down by one
remove_song_from_playlist(d, playlist_id, song_id) ==
    LET mine == {r \in d.playlist_songs :
                    r.playlist_id = playlist_id /\ r.song_id = song_id}
    IN  IF mine = {} THEN StoreOk(d)
        ELSE LET pos == (CHOOSE r \in mine : TRUE).position
             IN  StoreOk([d EXCEPT !.playlist_songs =
                     {[r EXCEPT !.position = IF r.playlist_id = playlist_id /\ r.position > pos
                                              THEN @ - 1 ELSE @] : r \in (@ \ mine)}])

\* ORDER BY position over a set of playlist_songs rows
RECURSIVE by_position(_)
by_position(rows) ==
    IF rows = {} THEN <<>>
    ELSE LET r == CHOOSE r \in rows : \A o \in rows : r.position <= o.position
         IN  <<r.song_id>> \o by_position(rows \ {r})

\* PlaylistSongRepository::get_playlist_songs: the songs of the playlist's
\* rows that join a songs row, by position
get_playlist_songs(d, playlist_id) ==
    by_position({r \in d.playlist_songs :
                    r.playlist_id = playlist_id /\ r.song_id \in d.songs})

\* CreatePlaylistUseCase::execute
CreatePlaylistUseCase_execute(d, name) ==
    IF exists_by_name(d, name) THEN StoreErr("ValidationFailed", d)
    ELSE LET r == Playlist_new(d.minted + 1, name, 0)
         IN  IF ~r.ok THEN StoreErr("Domain", d)
             ELSE StoreOk(save([d EXCEPT !.minted = @ + 1], r.playlist))

\* AddSongToPlaylistUseCase::execute
AddSongToPlaylistUseCase_execute(d, playlist_id, song_id) ==
    IF find_by_id(d, playlist_id) = NoneOpt THEN StoreErr("UseCaseFailed", d)
    ELSE IF song_find_by_id(d, song_id) = NoneOpt THEN StoreErr("UseCaseFailed", d)
    ELSE LET r == add_song(find_by_id(d, playlist_id)[1], song_id, 0)
         IN  IF ~r.ok THEN StoreErr("Domain", d)
             ELSE add_song_to_playlist(save(d, r.playlist), playlist_id, song_id,
                                       Len(r.playlist.song_ids) - 1)

\* RemoveSongFromPlaylistUseCase::execute
RemoveSongFromPlaylistUseCase_execute(d, playlist_id, song_id) ==
    IF find_by_id(d, playlist_id) = NoneOpt THEN StoreErr("UseCaseFailed", d)
    ELSE LET r == remove_song(find_by_id(d, playlist_id)[1], song_id, 0)
         IN  IF ~r.ok THEN StoreErr("Domain", d)
             ELSE remove_song_from_playlist(save(d, r.playlist), playlist_id, song_id)

\* No use case or repository call made yet
NoUse ==
    [uc |-> "none", playlist_id |-> 0, song_id |-> 0, name |-> <<>>,
     ok |-> TRUE, err |-> "", calls |-> 0]

\* The store variables of a specification that has no database
StoreIdle ==
    /\ db = EmptyDb(FALSE, {})
    /\ ures = NoUse

-----------------------------------------------------------------------------
(* The AudioPlayer audio thread, audio/player.rs.                          *)
(* current_position, total_duration and the two timing locals only feed    *)
(* the progress display and are left out.                                  *)

\* The files a Play command may name.
Paths == {1, 2}
\* The volumes a SetVolume command may carry, in tenths: -0.3, 0.5, 1.7.
Volumes == {-3, 5, 17}

\* PlayerCommand.  Seek, SetShuffle and SetRepeat carry a payload the audio
\* thread never reads; it is left out.
Cmd(c, a) == [cmd |-> c, arg |-> a]
PlayerCommands ==
    {Cmd("Play", p) : p \in Paths} \cup {Cmd("SetVolume", v) : v \in Volumes}
    \cup {Cmd(c, 0) : c \in {"Pause", "Resume", "Stop", "Seek", "SetShuffle", "SetRepeat", "Quit"}}

\* `sink = None`
NoSink == [live |-> FALSE, empty |-> TRUE, paused |-> FALSE, volume |-> 0]

\* The sink load_audio_file returns: one source appended, volume 0.7
LoadedSink == [live |-> TRUE, empty |-> FALSE, paused |-> FALSE, volume |-> 7]

\* PlaybackStatus::default()
DefaultStatus == [state |-> "Stopped", current_song |-> NoneOpt, volume |-> 7]

\* f32::clamp(0.0, 1.0), in tenths
clamp01(v) == IF v < 0 THEN 0 ELSE IF v > 10 THEN 10 ELSE v

\* What try_recv returns Err(Disconnected) for: every sender has been dropped.
\* It stands last in the channel, behind the commands sent before the drop.
Disconnected == Cmd("Disconnected", 0)
Closed(q) == q # <<>> /\ q[Len(q)] = Disconnected

\* What a drain cycle has done: the channel as it was when the cycle started
\* (kept only when it is Play, Stop, Play), the number of commands handled and
\* whether a load failed; and whether the thread has, in this cycle or an
\* earlier one, taken a Quit or found the channel disconnected.
NewCycle(q) ==
    [atStart |-> IF /\ Len(q) = 3
                    /\ q[1].cmd = "Play" /\ q[2].cmd = "Stop" /\ q[3].cmd = "Play"
                 THEN q ELSE <<>>,
     handled |-> 0, loadFailed |-> FALSE, shutdown |-> FALSE]
Handled(c, failed) ==
    [cycle EXCEPT !.handled = IF cycle.atStart = <<>> \/ @ > 3 THEN @ ELSE @ + 1,
                  !.loadFailed = IF cycle.atStart = <<>> THEN FALSE ELSE @ \/ failed]

\* AudioPlayer::new: the channel is empty and the audio thread enters its loop
AudioInit ==
    /\ chan = <<>>
    /\ nsent = 0
    /\ sink = NoSink
    /\ status = DefaultStatus
    /\ apc = "drain"
    /\ cycle = NewCycle(<<>>)

\* The audio variables of a specification that has no audio thread
AudioIdle ==
    /\ chan = <<>>
    /\ nsent = 0
    /\ sink = NoSink
    /\ status = DefaultStatus
    /\ apc = "off"
    /\ cycle = NewCycle(<<>>)

\* command_receiver.try_recv(): the oldest command waiting
\* A receiver that takes the newest command first
try_recv_Newest(q) == [command |-> q[Len(q)], rest |-> SubSeq(q, 1, Len(q) - 1)]

try_recv(q) == [command |-> Head(q), rest |-> Tail(q)]

\* AudioPlayer::send_command
send_command(q, c) == Append(q, c)

\* PlayerCommand::Play(path), the load succeeded
HandlePlayOk(path) ==
    /\ sink' = LoadedSink
    /\ status' = [status EXCEPT !.state = "Playing", !.current_song = Some(path)]

\* PlayerCommand::Play(path), load_audio_file returned Err: the old sink is gone
HandlePlayErr ==
    /\ sink' = NoSink
    /\ status' = [status EXCEPT !.state = "Stopped"]

\* PlayerCommand::Pause
HandlePause ==
    IF sink.live
    THEN /\ sink' = [sink EXCEPT !.paused = TRUE]
         /\ status' = [status EXCEPT !.state = "Paused"]
    ELSE UNCHANGED <<sink, status>>

\* PlayerCommand::Resume
HandleResume ==
    IF sink.live
    THEN /\ sink' = [sink EXCEPT !.paused = FALSE]
         /\ status' = [status EXCEPT !.state = "Playing"]
    ELSE UNCHANGED <<sink, status>>

\* PlayerCommand::Stop
HandleStop ==
    /\ sink' = NoSink
    /\ status' = [status EXCEPT !.state = "Stopped", !.current_song = NoneOpt]

\* PlayerCommand::SetVolume(volume)
HandleSetVolume(volume) ==
    /\ sink' = IF sink.live THEN [sink EXCEPT !.volume = volume] ELSE sink
    /\ status' = [status EXCEPT !.volume = volume]

\* One pass of `while let Ok(command) = command_receiver.try_recv()`: the
\* command is taken and its match arm runs.  Quit breaks out of the while loop
\* only; the outer loop goes on to the sink check.
AudioHandle ==
    /\ apc = "drain"
    /\ chan # <<>>
    /\ try_recv(chan).command # Disconnected
    /\ LET r == try_recv(chan)
           c == r.command
       IN  /\ chan' = r.rest
           /\ nsent' = nsent
           /\ \/ /\ c.cmd = "Play"
                 /\ \/ HandlePlayOk(c.arg) /\ cycle' = Handled(c, FALSE)
                    \/ HandlePlayErr /\ cycle' = Handled(c, TRUE)
                 /\ apc' = apc
              \/ /\ c.cmd = "Pause" /\ HandlePause
                 /\ cycle' = Handled(c, FALSE) /\ apc' = apc
              \/ /\ c.cmd = "Resume" /\ HandleResume
                 /\ cycle' = Handled(c, FALSE) /\ apc' = apc
              \/ /\ c.cmd = "Stop" /\ HandleStop
                 /\ cycle' = Handled(c, FALSE) /\ apc' = apc
              \/ /\ c.cmd = "SetVolume" /\ HandleSetVolume(c.arg)
                 /\ cycle' = Handled(c, FALSE) /\ apc' = apc
              \/ /\ c.cmd \in {"Seek", "SetShuffle", "SetRepeat"}
                 /\ UNCHANGED <<sink, status>>
                 /\ cycle' = Handled(c, FALSE) /\ apc' = apc
              \/ /\ c.cmd = "Quit"
                 /\ UNCHANGED <<sink, status>>
                 /\ cycle' = [Handled(c, FALSE) EXCEPT !.shutdown = TRUE]
                 /\ apc' = "check"

\* try_recv() returns Err, the channel being empty or disconnected: the while
\* loop ends
AudioDrainEnd ==
    /\ apc = "drain"
    /\ IF chan = <<>> THEN TRUE ELSE try_recv(chan).command = Disconnected
    /\ apc' = "check"
    /\ cycle' = [cycle EXCEPT !.shutdown = @ \/ chan # <<>>]
    /\ UNCHANGED <<chan, nsent, sink, status>>

\* "Update playback position": a sink that ran empty is dropped and the status reset
AudioCheck ==
    /\ apc = "check"
    /\ IF sink.live /\ sink.empty
       THEN /\ sink' = NoSink
            /\ status' = [status EXCEPT !.state = "Stopped", !.current_song = NoneOpt]
       ELSE UNCHANGED <<sink, status>>
    /\ apc' = "sleep"
    /\ UNCHANGED <<chan, nsent, cycle>>

\* thread::sleep(100 ms) returns and the loop starts its next drain cycle
AudioWake ==
    /\ apc = "sleep"
    /\ apc' = "drain"
    /\ cycle' = [NewCycle(chan) EXCEPT !.shutdown = cycle.shutdown]
    /\ UNCHANGED <<chan, nsent, sink, status>>

\* The sink plays its source to the end (a paused sink does not advance)
SinkFinish ==
    /\ sink.live /\ ~sink.empty /\ ~sink.paused
    /\ sink' = [sink EXCEPT !.empty = TRUE]
    /\ UNCHANGED <<chan, nsent, status, apc, cycle>>

AudioThread == AudioHandle \/ AudioDrainEnd \/ AudioCheck \/ AudioWake \/ SinkFinish

-----------------------------------------------------------------------------
(* SpecAudio: the audio thread and any holder of the AudioPlayer, which    *)
(* may send any PlayerCommand at any time.                                 *)

ClientSend ==
    \E c \in PlayerCommands :
        /\ nsent < MaxSends
        /\ ~Closed(chan)
        /\ chan' = send_command(chan, c)
        /\ nsent' = nsent + 1
        /\ UNCHANGED <<sink, status, apc, cycle>>

\* The AudioPlayer, the only holder of the sender, is dropped
ClientDrop ==
    /\ ~Closed(chan)
    /\ chan' = Append(chan, Disconnected)
    /\ UNCHANGED <<nsent, sink, status, apc, cycle>>

SeqIdle ==
    /\ ps = DefaultPlaybackState
    /\ op = "new"
    /\ argN = 0
    /\ ret = NoneOpt
    /\ pass = NoPass

AudioSpecInit == AudioInit /\ SeqIdle /\ AppIdle /\ GaplessIdle /\ EntityIdle /\ StoreIdle

AudioSpecNext ==
    \/ AudioHandle /\ UNCHANGED <<seqVars, appVars, gapVars, entVars, storeVars>>
    \/ AudioDrainEnd /\ UNCHANGED <<seqVars, appVars, gapVars, entVars, storeVars>>
    \/ AudioCheck /\ UNCHANGED <<seqVars, appVars, gapVars, entVars, storeVars>>
    \/ AudioWake /\ UNCHANGED <<seqVars, appVars, gapVars, entVars, storeVars>>
    \/ SinkFinish /\ UNCHANGED <<seqVars, appVars, gapVars, entVars, storeVars>>
    \/ ClientSend /\ UNCHANGED <<seqVars, appVars, gapVars, entVars, storeVars>>
    \/ ClientDrop /\ UNCHANGED <<seqVars, appVars, gapVars, entVars, storeVars>>

SpecAudio == AudioSpecInit /\ [][AudioSpecNext]_vars

-----------------------------------------------------------------------------
(* The App, ui/app.rs, and the loop that drives it, services/tui_service.rs.*)
(* Of AppState the fields that decide what is played are kept:             *)
(* filtered_songs (each song is its path), selected_song_index,            *)
(* active_panel, view_mode, and playback_state (the variable ps).  The     *)
(* search query, the input modes, the album art and the playback_status    *)
(* snapshot feed the display, toggle_playback and the volume keys, which   *)
(* are not part of this model.  The database holds one playlist, which     *)
(* lists the library's songs in the library's order.                       *)

\* App::update_filtered_songs with an empty search query
update_filtered_songs(a) ==
    IF a.selected_song_index >= Len(a.filtered_songs)
    THEN [a EXCEPT !.selected_song_index = 0]
    ELSE a

\* App::switch_to_playlist (load_songs reads the playlist's songs)
switch_to_playlist(a) ==
    update_filtered_songs([a EXCEPT !.view_mode = "Playlist", !.active_panel = "Songs"])

\* App::switch_to_library
switch_to_library(a) ==
    update_filtered_songs([a EXCEPT !.view_mode = "Library", !.active_panel = "Songs"])

\* App::switch_to_next_panel, show_album_art on
switch_to_next_panel(a) ==
    [a EXCEPT !.active_panel = CASE a.active_panel = "Playlists" -> "Songs"
                                 [] a.active_panel = "Songs" -> "AlbumArt"
                                 [] OTHER -> "Playlists"]

\* App::move_selection_down
move_selection_down(a) ==
    IF a.active_panel = "Songs" /\ a.filtered_songs # <<>>
    THEN [a EXCEPT !.selected_song_index =
              IF @ < Len(a.filtered_songs) - 1 THEN @ + 1 ELSE 0]
    ELSE a

\* App::move_selection_up
move_selection_up(a) ==
    IF a.active_panel = "Songs" /\ a.filtered_songs # <<>>
    THEN [a EXCEPT !.selected_song_index =
              IF @ > 0 THEN @ - 1 ELSE Len(a.filtered_songs) - 1]
    ELSE a

\* App::play_selected_song: [app |-> the state after, out |-> the commands sent]
play_selected_song(a) ==
    CASE a.active_panel = "Songs" ->
            IF a.selected_song_index < Len(a.filtered_songs)
            THEN [app |-> a,
                  out |-> <<Cmd("Play", a.filtered_songs[a.selected_song_index + 1])>>]
            ELSE [app |-> a, out |-> <<>>]
      [] a.active_panel = "Playlists" -> [app |-> switch_to_playlist(a), out |-> <<>>]
      [] OTHER -> [app |-> a, out |-> <<>>]

\* App::play_selected_playlist
play_selected_playlist(a) ==
    LET b == switch_to_playlist(a)
    IN  IF b.filtered_songs # <<>>
        THEN play_selected_song([b EXCEPT !.selected_song_index = 0])
        ELSE [app |-> b, out |-> <<>>]

\* App::stop_playback
stop_playback(a) == [app |-> a, out |-> <<Cmd("Stop", 0)>>]

\* App::advance_to_next_song; p and q are the outcomes of the random shuffles
\* next_song_index and set_current_song_index may make.
\* [app, ps, out, called |-> whether next_song_index ran, ret |-> what it returned]
advance_to_next_song(a, s, p, q) ==
    IF a.filtered_songs # <<>>
    THEN LET n == Len(a.filtered_songs)
             r == next_song_index(s, n, p)
         IN  IF r.ret # NoneOpt
             THEN LET next_index == r.ret[1]
                      play == play_selected_song([a EXCEPT !.selected_song_index = next_index])
                  IN  [app |-> play.app,
                       ps |-> set_current_song_index(r.st, next_index, n, q),
                       out |-> play.out, called |-> TRUE, ret |-> r.ret]
             ELSE [app |-> a, ps |-> r.st, out |-> <<Cmd("Stop", 0)>>,
                   called |-> TRUE, ret |-> r.ret]
    ELSE [app |-> a, ps |-> s, out |-> <<>>, called |-> FALSE, ret |-> NoneOpt]

\* The test of App::check_and_handle_song_completion on the status it reads
song_completed(a, st) ==
    /\ st.state = "Stopped"
    /\ st.current_song = NoneOpt
    /\ a.view_mode = "Playlist"

\* App::check_and_handle_song_completion
check_and_handle_song_completion(a, s, st, p, q) ==
    IF song_completed(a, st)
    THEN advance_to_next_song(a, s, p, q)
    ELSE [app |-> a, ps |-> s, out |-> <<>>, called |-> FALSE, ret |-> NoneOpt]

\* obs.adv follows the advances made for one track end: "idle" while no track
\* end is waiting for its successor (the audio thread has taken a Play since),
\* "none" from the moment the audio thread reports a finished track, "auto"
\* after the tick has advanced for it, "user" after the user's Next has,
\* "double" once the tick has advanced again.
ObsAfterAdvance(r, byUser) ==
    [adv |-> IF ~r.called THEN obs.adv
             ELSE IF byUser THEN (IF obs.adv = "none" THEN "user" ELSE obs.adv)
             ELSE CASE obs.adv = "none" -> "auto"
                    [] obs.adv \in {"auto", "user", "double"} -> "double"
                    [] OTHER -> obs.adv,
     \* obs.pass: the positions the advances since shuffle was turned on returned
     pass |-> IF r.called /\ obs.passOn /\ Len(obs.pass) <= Len(app.filtered_songs)
              THEN Append(obs.pass, r.ret) ELSE obs.pass,
     passOn |-> obs.passOn]

\* App::new: the configured shuffle flag and repeat mode are copied into a
\* default PlaybackState, and set_volume has sent the stored volume (0.7)
AppInit ==
    /\ \E n \in 0..MaxLibrary : app = NewApp(n)
    /\ \E sh \in BOOLEAN : \E rm \in RepeatModes :
          ps = [DefaultPlaybackState EXCEPT !.shuffle = sh, !.repeat_mode = rm]
    /\ obs = [adv |-> "idle", pass |-> <<>>, passOn |-> FALSE]
    /\ op = "new" /\ argN = 0 /\ ret = NoneOpt /\ pass = NoPass
    /\ chan = <<Cmd("SetVolume", 7)>>
    /\ nsent = 0
    /\ sink = NoSink
    /\ status = DefaultStatus
    /\ apc = "drain"
    /\ cycle = NewCycle(<<>>)
    /\ GaplessIdle
    /\ EntityIdle /\ StoreIdle

\* What a UI handler leaves as it is
UiFrame == UNCHANGED <<op, argN, ret, pass, sink, status, apc, cycle, gapVars, entVars, storeVars>>

\* The handler's commands go to the channel
UiSend(out) ==
    /\ nsent + Len(out) <= MaxSends
    /\ chan' = chan \o out
    /\ nsent' = nsent + Len(out)

\* "select" (Enter)
UiSelect ==
    /\ LET r == CASE app.active_panel = "Songs" -> play_selected_song(app)
                  [] app.active_panel = "Playlists" -> play_selected_playlist(app)
                  [] OTHER -> [app |-> app, out |-> <<>>]
       IN  app' = r.app /\ UiSend(r.out)
    /\ UNCHANGED <<ps, obs>>
    /\ UiFrame

\* "next_track"
UiNextTrack ==
    /\ \E p, q \in Shuffles(Len(app.filtered_songs)) :
          LET r == advance_to_next_song(app, ps, p, q)
          IN  /\ app' = r.app /\ ps' = r.ps /\ UiSend(r.out)
              /\ obs' = ObsAfterAdvance(r, TRUE)
    /\ UiFrame

\* "previous_track" and 's'
UiStop ==
    /\ UiSend(stop_playback(app).out)
    /\ UNCHANGED <<app, ps, obs>>
    /\ UiFrame

\* "move_down" and "move_up"
UiMoveSelection ==
    /\ app' \in {move_selection_down(app), move_selection_up(app)}
    /\ UNCHANGED <<ps, obs, chan, nsent>>
    /\ UiFrame

\* Tab
UiSwitchPanel ==
    /\ app' = switch_to_next_panel(app)
    /\ UNCHANGED <<ps, obs, chan, nsent>>
    /\ UiFrame

\* Backspace
UiSwitchToLibrary ==
    /\ app' = switch_to_library(app)
    /\ UNCHANGED <<ps, obs, chan, nsent>>
    /\ UiFrame

\* 'S': App::toggle_shuffle
UiToggleShuffle ==
    /\ \E p \in Shuffles(Len(app.filtered_songs)) :
          ps' = toggle_shuffle(ps, Len(app.filtered_songs), p)
    /\ obs' = [obs EXCEPT !.pass = <<>>,
                          !.passOn = ~ps.shuffle /\ ps.repeat_mode = "None"]
    /\ UNCHANGED <<app, chan, nsent>>
    /\ UiFrame

\* 'R': App::cycle_repeat_mode
UiCycleRepeat ==
    /\ ps' = cycle_repeat_mode(ps)
    /\ obs' = [obs EXCEPT !.pass = <<>>, !.passOn = FALSE]
    /\ UNCHANGED <<app, chan, nsent>>
    /\ UiFrame

\* The tick of run_app_loop: update_playback_status, then
\* check_and_handle_song_completion on the status it reads
UiTick ==
    /\ \E p, q \in Shuffles(Len(app.filtered_songs)) :
          LET r == check_and_handle_song_completion(app, ps, status, p, q)
          IN  /\ app' = r.app /\ ps' = r.ps /\ UiSend(r.out)
              /\ obs' = ObsAfterAdvance(r, FALSE)
    /\ UiFrame

\* The audio thread's steps, with obs following the track ends it reports
AppAudioHandle ==
    /\ AudioHandle
    /\ obs' = IF Head(chan).cmd = "Play" THEN [obs EXCEPT !.adv = "idle"] ELSE obs
    /\ UNCHANGED <<seqVars, app, gapVars, entVars, storeVars>>

AppAudioCheck ==
    /\ AudioCheck
    /\ obs' = IF sink.live /\ sink.empty THEN [obs EXCEPT !.adv = "none"] ELSE obs
    /\ UNCHANGED <<seqVars, app, gapVars, entVars, storeVars>>

AppNext ==
    \/ UiSelect
    \/ UiNextTrack
    \/ UiStop
    \/ UiMoveSelection
    \/ UiSwitchPanel
    \/ UiSwitchToLibrary
    \/ UiToggleShuffle
    \/ UiCycleRepeat
    \/ UiTick
    \/ AppAudioHandle
    \/ AppAudioCheck
    \/ AudioDrainEnd /\ UNCHANGED <<seqVars, appVars, gapVars, entVars, storeVars>>
    \/ AudioWake /\ UNCHANGED <<seqVars, appVars, gapVars, entVars, storeVars>>
    \/ SinkFinish /\ UNCHANGED <<seqVars, appVars, gapVars, entVars, storeVars>>

SpecApp == AppInit /\ [][AppNext]_vars

-----------------------------------------------------------------------------
(* The GaplessPlayer control thread, audio/gapless_player.rs.  Its         *)
(* playback_manager is the variable ps.  A song is its path; whether a     *)
(* file opens and decodes is decided at each load.  The status messages    *)
(* the thread sends feed the display and are left out, and so is shutdown  *)
(* (is_running stays true).                                                *)

\* PlaybackState::play
play(s) == [s EXCEPT !.is_playing = TRUE, !.is_paused = FALSE]

\* PlaybackState::pause
pause(s) == [s EXCEPT !.is_playing = FALSE, !.is_paused = TRUE]

\* PlaybackState::stop
stop(s) == [s EXCEPT !.is_playing = FALSE, !.is_paused = FALSE]

\* PlaybackState::set_volume
set_volume(s, volume) == [s EXCEPT !.volume = clamp01(volume)]

\* enum PlayerEvent; LoadPlaylist(n) carries the songs 1..n
PlayerEvents ==
    {Cmd(c, 0) : c \in {"Play", "Pause", "Stop", "Next", "Previous", "Seek",
                        "ToggleShuffle", "CycleRepeat"}}
        \cup {Cmd("SetVolume", v) : v \in Volumes}
        \cup {Cmd("LoadPlaylist", n) : n \in 0..MaxLibrary}

\* The result of a handler that went through
GpOk(g, s) == [gp |-> g, ps |-> s, err |-> FALSE, selected |-> FALSE, relock |-> FALSE]

\* GaplessPlayer::load_and_play_current_song; ok: the file opens and decodes
load_and_play_current_song(g, s, ok) ==
    IF s.current_song_index < Len(g.playlist)
    THEN IF ok
         THEN GpOk([g EXCEPT !.sink.empty = FALSE, !.sink.paused = FALSE,
                             !.current_song = Some(g.playlist[s.current_song_index + 1])],
                   play(s))
         ELSE [GpOk(g, s) EXCEPT !.err = TRUE]
    ELSE GpOk(g, s)

\* GaplessPlayer::play_next_song
play_next_song(g, s, p, ok) ==
    LET r == next_song_index(s, Len(g.playlist), p)
    IN  IF r.ret # NoneOpt
        THEN [load_and_play_current_song(g, [r.st EXCEPT !.current_song_index = r.ret[1]], ok)
                 EXCEPT !.selected = TRUE]
        ELSE GpOk(g, r.st)

\* GaplessPlayer::play_previous_song
play_previous_song(g, s, ok) ==
    LET r == previous_song_index(s, Len(g.playlist))
    IN  IF r.ret # NoneOpt
        THEN [load_and_play_current_song(g, [r.st EXCEPT !.current_song_index = r.ret[1]], ok)
                 EXCEPT !.selected = TRUE]
        ELSE GpOk(g, r.st)

\* GaplessPlayer::handle_song_end.  At the end of the playlist it locks
\* playback_manager again while the guard taken on entry is still alive
\* (relock): std::sync::Mutex then either never returns or panics.
handle_song_end(g, s, p, ok) ==
    LET r == next_song_index(s, Len(g.playlist), p)
    IN  IF r.ret # NoneOpt
        THEN [load_and_play_current_song(g, [r.st EXCEPT !.current_song_index = r.ret[1]], ok)
                 EXCEPT !.selected = TRUE]
        ELSE [GpOk(g, r.st) EXCEPT !.relock = TRUE]

\* GaplessPlayer::handle_event
handle_event(e, g, s, p, ok) ==
    CASE e.cmd = "Play" -> GpOk([g EXCEPT !.sink.paused = FALSE], play(s))
      [] e.cmd = "Pause" -> GpOk([g EXCEPT !.sink.paused = TRUE], pause(s))
      [] e.cmd = "Stop" ->
            GpOk([g EXCEPT !.sink.empty = TRUE, !.current_song = NoneOpt], stop(s))
      [] e.cmd = "Next" -> play_next_song(g, s, p, ok)
      [] e.cmd = "Previous" -> play_previous_song(g, s, ok)
      [] e.cmd = "SetVolume" -> GpOk([g EXCEPT !.sink.volume = e.arg], set_volume(s, e.arg))
      [] e.cmd = "LoadPlaylist" ->
            LET h == [g EXCEPT !.playlist = [i \in 1..e.arg |-> i]]
            IN  IF e.arg > 0
                THEN load_and_play_current_song(h, [s EXCEPT !.current_song_index = 0], ok)
                ELSE GpOk(h, s)
      [] e.cmd = "ToggleShuffle" -> GpOk(g, toggle_shuffle(s, Len(g.playlist), p))
      [] e.cmd = "CycleRepeat" -> GpOk(g, cycle_repeat_mode(s))
      [] OTHER -> GpOk(g, s)

\* GaplessPlayer::new
GaplessInit ==
    /\ gp = NewGapless
    /\ gobs = NoGobs
    /\ SeqIdle
    /\ AudioIdle
    /\ AppIdle
    /\ EntityIdle /\ StoreIdle

\* What the gapless player leaves as it is
GpFrame == UNCHANGED <<op, argN, ret, pass, audioVars, appVars, entVars, storeVars>>

\* GaplessPlayer::send_event, by any holder of the player; it fails once the
\* thread has panicked and dropped the receiver
GpSend ==
    /\ gp.pc # "panicked"
    /\ gp.nsent < MaxSends
    /\ \E e \in PlayerEvents :
          gp' = [gp EXCEPT !.events = Append(@, e), !.nsent = @ + 1]
    /\ gobs' = NoGobs
    /\ UNCHANGED ps
    /\ GpFrame

\* start_control_loop, the inner loop: one event received and handled
GpHandleEvent ==
    /\ gp.pc = "events"
    /\ gp.events # <<>>
    /\ \E p \in Shuffles(Len(gp.playlist)) : \E ok \in BOOLEAN :
          LET e == Head(gp.events)
              r == handle_event(e, [gp EXCEPT !.events = Tail(@)], ps, p, ok)
          IN  /\ gp' = r.gp
              /\ ps' = r.ps
              /\ gobs' = [failed |-> r.selected /\ r.err,
                          before |-> IF r.selected /\ r.err THEN ps.current_song_index ELSE 0,
                          afterStop |-> e.cmd = "Stop" /\ gp.playlist # <<>>]
    /\ GpFrame

\* start_control_loop: try_recv finds the channel empty
GpEventsDone ==
    /\ gp.pc = "events"
    /\ gp.events = <<>>
    /\ gp' = [gp EXCEPT !.pc = "check"]
    /\ gobs' = [gobs EXCEPT !.failed = FALSE, !.before = 0]
    /\ UNCHANGED ps
    /\ GpFrame

\* start_control_loop: the sink-empty check, handle_song_end, and the sleep
GpCheck ==
    /\ gp.pc = "check"
    /\ IF gp.sink.empty
       THEN \E p \in Shuffles(Len(gp.playlist)) : \E ok \in BOOLEAN :
               LET r == handle_song_end(gp, ps, p, ok)
               IN  /\ ps' = r.ps
                   /\ IF r.relock
                      THEN \E stuck \in {"deadlocked", "panicked"} :
                              gp' = [r.gp EXCEPT !.pc = stuck]
                      ELSE gp' = [r.gp EXCEPT !.pc = "events"]
                   /\ gobs' = [gobs EXCEPT !.failed = r.selected /\ r.err,
                                           !.before = IF r.selected /\ r.err
                                                      THEN ps.current_song_index ELSE 0]
       ELSE /\ gp' = [gp EXCEPT !.pc = "events"]
            /\ UNCHANGED <<ps, gobs>>
    /\ GpFrame

\* The sink plays its source to the end
GpSinkFinish ==
    /\ ~gp.sink.empty
    /\ ~gp.sink.paused
    /\ gp' = [gp EXCEPT !.sink.empty = TRUE]
    /\ UNCHANGED <<ps, gobs>>
    /\ GpFrame

GaplessNext ==
    \/ GpSend
    \/ GpHandleEvent
    \/ GpEventsDone
    \/ GpCheck
    \/ GpSinkFinish

SpecGapless == GaplessInit /\ [][GaplessNext]_vars

-----------------------------------------------------------------------------
(* SpecSeq: a PlaybackState on its own, any caller, any arguments.         *)

\* PlaybackState::default(), with the shuffle flag and the repeat mode as the
\* owner writes them from its configuration (App::new)
SeqInit ==
    /\ \E sh \in BOOLEAN : \E rm \in RepeatModes :
          ps = [DefaultPlaybackState EXCEPT !.shuffle = sh, !.repeat_mode = rm]
    /\ op = "new"
    /\ argN = 0
    /\ ret = NoneOpt
    /\ pass = NoPass
    /\ AudioIdle
    /\ AppIdle
    /\ GaplessIdle
    /\ EntityIdle /\ StoreIdle

SeqToggleShuffle ==
    \E n \in 0..MaxSongs : \E p \in Shuffles(n) :
        /\ ps' = toggle_shuffle(ps, n, p)
        /\ op' = "toggle_shuffle" /\ argN' = n /\ ret' = NoneOpt
        /\ pass' = NoPass
        /\ UNCHANGED <<audioVars, appVars, gapVars, entVars, storeVars>>

SeqEnableShuffle ==
    \E n \in 0..MaxSongs : \E p \in Shuffles(n) :
        /\ ps' = enable_shuffle(ps, n, p)
        /\ op' = "enable_shuffle" /\ argN' = n /\ ret' = NoneOpt
        /\ pass' = [on |-> n > 0 /\ ps.current_song_index < n, n |-> n, rets |-> <<>>]
        /\ UNCHANGED <<audioVars, appVars, gapVars, entVars, storeVars>>

SeqNextSongIndex ==
    \E n \in 0..MaxSongs : \E p \in Shuffles(n) :
        LET r == next_song_index(ps, n, p)
        IN  /\ ps' = r.st
            /\ op' = "next_song_index" /\ argN' = n /\ ret' = r.ret
            /\ pass' = IF pass.on /\ pass.n = n /\ Len(pass.rets) < n
                       THEN [pass EXCEPT !.rets = Append(@, r.ret)]
                       ELSE NoPass
            /\ UNCHANGED <<audioVars, appVars, gapVars, entVars, storeVars>>

SeqPreviousSongIndex ==
    \E n \in 0..MaxSongs :
        LET r == previous_song_index(ps, n)
        IN  /\ ps' = r.st
            /\ op' = "previous_song_index" /\ argN' = n /\ ret' = r.ret
            /\ pass' = NoPass
            /\ UNCHANGED <<audioVars, appVars, gapVars, entVars, storeVars>>

SeqSetCurrentSongIndex ==
    \E n \in 0..MaxSongs : \E i \in 0..(MaxSongs - 1) : \E p \in Shuffles(n) :
        /\ ps' = set_current_song_index(ps, i, n, p)
        /\ op' = "set_current_song_index" /\ argN' = n /\ ret' = NoneOpt
        /\ pass' = NoPass
        /\ UNCHANGED <<audioVars, appVars, gapVars, entVars, storeVars>>

SeqCycleRepeatMode ==
    /\ ps' = cycle_repeat_mode(ps)
    /\ op' = "cycle_repeat_mode" /\ argN' = 0 /\ ret' = NoneOpt
    /\ pass' = IF pass.on /\ pass.rets = <<>> THEN pass ELSE NoPass
    /\ UNCHANGED <<audioVars, appVars, gapVars, entVars, storeVars>>

SeqNext ==
    \/ SeqToggleShuffle
    \/ SeqEnableShuffle
    \/ SeqNextSongIndex
    \/ SeqPreviousSongIndex
    \/ SeqSetCurrentSongIndex
    \/ SeqCycleRepeatMode

SpecSeq == SeqInit /\ [][SeqNext]_vars

-----------------------------------------------------------------------------
(* SpecFixed: one PlaybackState from PlaybackState::new() whose owner      *)
(* passes the same playlist size, argN, to every call.                     *)

FixedInit ==
    /\ ps = DefaultPlaybackState
    /\ op = "new"
    /\ argN \in 0..MaxSongs
    /\ ret = NoneOpt
    /\ pass = NoPass
    /\ AudioIdle
    /\ AppIdle
    /\ GaplessIdle
    /\ EntityIdle /\ StoreIdle

\* What a call on the PlaybackState leaves as it is
FixedFrame == UNCHANGED <<argN, pass, audioVars, appVars, gapVars, entVars, storeVars>>

FixedToggleShuffle ==
    /\ \E p \in Shuffles(argN) : ps' = toggle_shuffle(ps, argN, p)
    /\ op' = "toggle_shuffle" /\ ret' = NoneOpt
    /\ FixedFrame

FixedNextSongIndex ==
    /\ \E p \in Shuffles(argN) :
          /\ ps' = next_song_index(ps, argN, p).st
          /\ ret' = next_song_index(ps, argN, p).ret
    /\ op' = "next_song_index"
    /\ FixedFrame

FixedPreviousSongIndex ==
    /\ ps' = previous_song_index(ps, argN).st
    /\ ret' = previous_song_index(ps, argN).ret
    /\ op' = "previous_song_index"
    /\ FixedFrame

\* set_current_song_index(i, N) with i < N
FixedSetCurrentSongIndex ==
    /\ \E i \in 0..(argN - 1) : \E p \in Shuffles(argN) :
          ps' = set_current_song_index(ps, i, argN, p)
    /\ op' = "set_current_song_index" /\ ret' = NoneOpt
    /\ FixedFrame

FixedCycleRepeatMode ==
    /\ ps' = cycle_repeat_mode(ps)
    /\ op' = "cycle_repeat_mode" /\ ret' = NoneOpt
    /\ FixedFrame

FixedNext ==
    \/ FixedToggleShuffle
    \/ FixedNextSongIndex
    \/ FixedPreviousSongIndex
    \/ FixedSetCurrentSongIndex
    \/ FixedCycleRepeatMode

SpecFixed == FixedInit /\ [][FixedNext]_vars

-----------------------------------------------------------------------------
(* SpecPlaylist: one Playlist entity and any caller of its methods.        *)

PlaylistSpecInit ==
    /\ EntityInit
    /\ StoreIdle
    /\ SeqIdle
    /\ AudioIdle
    /\ AppIdle
    /\ GaplessIdle

PlaylistNext ==
    \/ EntAddSong /\ UNCHANGED <<seqVars, audioVars, appVars, gapVars, storeVars>>
    \/ EntRemoveSong /\ UNCHANGED <<seqVars, audioVars, appVars, gapVars, storeVars>>
    \/ EntMoveSong /\ UNCHANGED <<seqVars, audioVars, appVars, gapVars, storeVars>>
    \/ EntClear /\ UNCHANGED <<seqVars, audioVars, appVars, gapVars, storeVars>>

SpecPlaylist == PlaylistSpecInit /\ [][PlaylistNext]_vars

-----------------------------------------------------------------------------
(* SpecStore: one database, any sequence of use case executions and of     *)
(* direct calls of the playlist-song repository.                           *)

\* A fresh database holding some songs and no playlist
StoreInit ==
    /\ \E fk \in BOOLEAN : \E songs \in SUBSET SongIds : db = EmptyDb(fk, songs)
    /\ ures = NoUse
    /\ EntityIdle
    /\ SeqIdle
    /\ AudioIdle
    /\ AppIdle
    /\ GaplessIdle

\* What a store action leaves as it is
StoreFrame == UNCHANGED <<seqVars, audioVars, appVars, gapVars, entVars>>

\* The record of a call and its result r
Used(uc, playlist_id, song_id, name, r) ==
    [uc |-> uc, playlist_id |-> playlist_id, song_id |-> song_id, name |-> name,
     ok |-> r.ok, err |-> r.err, calls |-> ures.calls + 1]

\* CreatePlaylistUseCase is executed
UcCreatePlaylist ==
    /\ ures.calls < MaxCalls
    /\ db.minted < MaxPlaylists
    /\ \E name \in Names :
          LET r == CreatePlaylistUseCase_execute(db, name)
          IN  /\ db' = r.db
              /\ ures' = Used("CreatePlaylist", 0, 0, name, r)
    /\ StoreFrame

\* AddSongToPlaylistUseCase is executed
UcAddSong ==
    /\ ures.calls < MaxCalls
    /\ \E playlist_id \in PlaylistIds : \E song_id \in SongIds :
          LET r == AddSongToPlaylistUseCase_execute(db, playlist_id, song_id)
          IN  /\ db' = r.db
              /\ ures' = Used("AddSong", playlist_id, song_id, <<>>, r)
    /\ StoreFrame

\* RemoveSongFromPlaylistUseCase is executed
UcRemoveSong ==
    /\ ures.calls < MaxCalls
    /\ \E playlist_id \in PlaylistIds : \E song_id \in SongIds :
          LET r == RemoveSongFromPlaylistUseCase_execute(db, playlist_id, song_id)
          IN  /\ db' = r.db
              /\ ures' = Used("RemoveSong", playlist_id, song_id, <<>>, r)
    /\ StoreFrame

\* add_song_to_playlist is called directly, with a position up to the
\* number of rows the playlist has
RepoAddSong ==
    /\ ures.calls < MaxCalls
    /\ \E playlist_id \in PlaylistIds : \E song_id \in SongIds :
        \E position \in 0..Cardinality({r \in db.playlist_songs : r.playlist_id = playlist_id}) :
          LET r == add_song_to_playlist(db, playlist_id, song_id, position)
          IN  /\ db' = r.db
              /\ ures' = Used("add_song_to_playlist", playlist_id, song_id, <<>>, r)
    /\ StoreFrame

\* remove_song_from_playlist is called directly
RepoRemoveSong ==
    /\ ures.calls < MaxCalls
    /\ \E playlist_id \in PlaylistIds : \E song_id \in SongIds :
          LET r == remove_song_from_playlist(db, playlist_id, song_id)
          IN  /\ db' = r.db
              /\ ures' = Used("remove_song_from_playlist", playlist_id, song_id, <<>>, r)
    /\ StoreFrame

StoreNext ==
    \/ UcCreatePlaylist
    \/ UcAddSong
    \/ UcRemoveSong
    \/ RepoAddSong
    \/ RepoRemoveSong

SpecStore == StoreInit /\ [][StoreNext]_vars

-----------------------------------------------------------------------------
(* Claims about the sequencer, checked under SpecSeq.                      *)

\* C1: with repeat=Playlist, the N calls of next_song_index(N) that follow
\* enable_shuffle(N) (current index below N, nothing else in between) return
\* every position of 0..N-1 exactly once.
C1_ExhaustiveFairShuffle ==
    (pass.on /\ ps.shuffle /\ ps.repeat_mode = "Playlist" /\ Len(pass.rets) = pass.n)
        => /\ {pass.rets[i] : i \in 1..pass.n} = {Some(j) : j \in 0..(pass.n - 1)}
           /\ \A i, j \in 1..pass.n : pass.rets[i] = pass.rets[j] => i = j

\* C9: with repeat=Single and N > 0, next_song_index(N) and
\* previous_song_index(N) return Some(current_song_index), whatever the shuffle
\* flag and the shuffle queue hold.
C9_SingleRepeatInvariance ==
    [][(/\ op' \in {"next_song_index", "previous_song_index"}
        /\ argN' > 0
        /\ ps.repeat_mode = "Single")
          => ret' = Some(ps.current_song_index)]_vars

\* C9 witness: a next_song_index call under Single with shuffle on and a
\* non-empty queue returned the current index.
C9_Witness ==
    /\ op = "next_song_index" /\ argN > 0
    /\ ps.repeat_mode = "Single" /\ ps.shuffle /\ ps.shuffle_queue # <<>>
    /\ ps.current_song_index > 0
    /\ ret = Some(ps.current_song_index)

\* C10: with shuffle off and N > 0, next_song_index(N) returns None exactly
\* when repeat=None and current_song_index = N-1, and otherwise (repeat other
\* than Single) Some((current_song_index + 1) mod N).
C10_SequentialOrder ==
    [][(/\ op' = "next_song_index"
        /\ argN' > 0
        /\ ~ps.shuffle
        /\ ps.repeat_mode # "Single")
          => ret' = IF ps.repeat_mode = "None" /\ ps.current_song_index = argN' - 1
                    THEN NoneOpt
                    ELSE Some((ps.current_song_index + 1) % argN')]_vars

\* C10 witness: under repeat=Playlist the last position of a playlist of more
\* than one song wrapped to position 0.
C10_Witness ==
    /\ op = "next_song_index" /\ argN > 1
    /\ ~ps.shuffle /\ ps.repeat_mode = "Playlist"
    /\ ps.current_song_index = argN - 1
    /\ ret = Some(0)

\* C11: with an empty playlist (N = 0), next_song_index(0) and
\* previous_song_index(0) return None and leave the PlaybackState as it was,
\* in every mode and every state.
C11_EmptyPlaylistSafety ==
    [][(op' \in {"next_song_index", "previous_song_index"} /\ argN' = 0)
          => (ret' = NoneOpt /\ ps' = ps)]_vars

\* C11 witness: next_song_index(0) was called with shuffle on, repeat Single
\* and positions still in the shuffle queue, and returned None.
C11_Witness ==
    /\ op = "next_song_index"
    /\ argN = 0
    /\ ps.shuffle
    /\ ps.repeat_mode = "Single"
    /\ ps.shuffle_queue # <<>>
    /\ ret = NoneOpt

\* toggle_shuffle(N) has just turned shuffle on with the current index k below N
JustShuffled(o, n, s) ==
    /\ o = "toggle_shuffle"
    /\ s.shuffle
    /\ n > 0
    /\ s.current_song_index < n

\* The queue holds every position of 0..n-1 other than k, each once
QueueIsAllBut(q, n, k) ==
    /\ Len(q) = n - 1
    /\ {q[i] : i \in 1..Len(q)} = (0..(n - 1)) \ {k}

\* C12: right after toggle_shuffle(N) turns shuffle on with N > 0 and current
\* index k < N, the shuffle queue is a duplicate-free arrangement of the
\* positions of 0..N-1 other than k, and the very next next_song_index(N)
\* with repeat other than Single does not return k, unless N = 1 and repeat
\* is Playlist (the only position is k, and it is returned).
C12_ShuffleToggleExcludesCurrent ==
    [][/\ JustShuffled(op', argN', ps')
            => QueueIsAllBut(ps'.shuffle_queue, argN', ps'.current_song_index)
       /\ (/\ JustShuffled(op, argN, ps)
           /\ op' = "next_song_index" /\ argN' = argN
           /\ ps.repeat_mode # "Single"
           /\ ~(argN = 1 /\ ps.repeat_mode = "Playlist"))
            => ret' # Some(ps.current_song_index)]_vars

\* C12 as stated, for every N > 0: the next_song_index(N) that follows the
\* toggle, with repeat other than Single, does not return k.
C12_AsStated ==
    [][(/\ JustShuffled(op, argN, ps)
        /\ op' = "next_song_index" /\ argN' = argN
        /\ ps.repeat_mode # "Single")
          => ret' # Some(ps.current_song_index)]_vars

\* C12 witness: shuffle has just been turned on over more than one position
\* with a current index other than 0, and the queue holds all the others.
C12_Witness ==
    /\ JustShuffled(op, argN, ps)
    /\ argN > 1
    /\ ps.current_song_index > 0
    /\ QueueIsAllBut(ps.shuffle_queue, argN, ps.current_song_index)

\* C13: with shuffle on, the queue empty and repeat=Playlist,
\* next_song_index(N) rebuilds the queue from all N positions: it returns one
\* of them and leaves the other N-1 in the queue.
C13_RegenerationIsFullPermutation ==
    [][(/\ op' = "next_song_index" /\ argN' > 0
        /\ ps.shuffle /\ ps.shuffle_queue = <<>>
        /\ ps.repeat_mode = "Playlist")
          => /\ ret' # NoneOpt
             /\ Len(ps'.shuffle_queue) = argN' - 1
             /\ {ret'[1]} \cup {ps'.shuffle_queue[i] : i \in 1..Len(ps'.shuffle_queue)}
                    = 0..(argN' - 1)]_vars

\* C17: when shuffle is on but the queue has never been built (the flag was
\* copied from the configuration), the first next_song_index(N) with N > 1 and
\* repeat other than Single builds the queue and returns Some position.
C17_QueueCreatedOnFirstNeed ==
    [][(/\ op' = "next_song_index" /\ argN' > 1
        /\ ps.shuffle
        /\ ps.shuffle_queue = <<>> /\ ps.original_order = <<>>
        /\ ps.repeat_mode # "Single")
          => /\ ret' # NoneOpt
             /\ ps'.original_order # <<>>]_vars

\* C20: for N > 0 and repeat other than Single, previous_song_index(N)
\* returns Some(N-1) when the current index is 0 and Some(current index - 1)
\* otherwise, with shuffle on or off, and leaves the shuffle queue as it was.
C20_PreviousPosition ==
    [][(/\ op' = "previous_song_index" /\ argN' > 0
        /\ ps.repeat_mode # "Single")
          => /\ ret' = Some(IF ps.current_song_index = 0 THEN argN' - 1
                            ELSE ps.current_song_index - 1)
             /\ ps'.shuffle_queue = ps.shuffle_queue]_vars

\* C20 witness: previous_song_index(N) was called at index 0 with shuffle on,
\* positions in the queue and more than one song, and returned Some(N-1).
C20_Witness ==
    /\ op = "previous_song_index"
    /\ argN > 1
    /\ ps.repeat_mode # "Single"
    /\ ps.shuffle /\ ps.shuffle_queue # <<>>
    /\ ps.current_song_index = 0
    /\ ret = Some(argN - 1)

\* C21: next_song_index and previous_song_index do not commit: they leave
\* current_song_index, shuffle, repeat_mode, is_playing, is_paused and volume
\* as they were, and the current index changes only through
\* set_current_song_index.
C21_DecisionsDoNotCommit ==
    [][/\ op' \in {"next_song_index", "previous_song_index"}
            => /\ ps'.current_song_index = ps.current_song_index
               /\ ps'.shuffle = ps.shuffle
               /\ ps'.repeat_mode = ps.repeat_mode
               /\ ps'.is_playing = ps.is_playing
               /\ ps'.is_paused = ps.is_paused
               /\ ps'.volume = ps.volume
       /\ ps'.current_song_index # ps.current_song_index
            => op' = "set_current_song_index"]_vars

\* C21 witness: next_song_index took a position other than the current one
\* from the shuffle queue and returned it; the current index is not that
\* position.
C21_Witness ==
    /\ op = "next_song_index"
    /\ argN > 1
    /\ ps.shuffle
    /\ ret # NoneOpt
    /\ ret # Some(ps.current_song_index)

\* C26: every Some(i) that next_song_index(N) or previous_song_index(N)
\* returns has i < N, also when N is not the size the shuffle queue or the
\* current index was set up with.
C26_ReturnedIndexInRange ==
    (op \in {"next_song_index", "previous_song_index"} /\ ret # NoneOpt)
        => ret[1] < argN

\* C28: for a fixed playlist size N, after any sequence of toggle_shuffle(N),
\* next_song_index(N), previous_song_index(N), set_current_song_index(i, N)
\* with i < N and cycle_repeat_mode on a PlaybackState::new(), the shuffle
\* queue holds no position twice, holds only positions below N, and is empty
\* whenever shuffle is off.
C28_QueueWellFormed ==
    /\ \A i, j \in 1..Len(ps.shuffle_queue) :
          ps.shuffle_queue[i] = ps.shuffle_queue[j] => i = j
    /\ \A i \in 1..Len(ps.shuffle_queue) : ps.shuffle_queue[i] \in 0..(argN - 1)
    /\ ~ps.shuffle => ps.shuffle_queue = <<>>

\* C28 witness: with the largest playlist, shuffle on and repeat Playlist,
\* next_song_index returned a position from the queue and left positions
\* queued, the current index having been set to a position other than 0.
C28_Witness ==
    /\ op = "next_song_index"
    /\ argN = MaxSongs
    /\ ps.shuffle
    /\ ps.repeat_mode = "Playlist"
    /\ ps.current_song_index # 0
    /\ ret # NoneOpt
    /\ ps.shuffle_queue # <<>>

-----------------------------------------------------------------------------
(* Claims about the AudioPlayer audio thread, checked under SpecAudio.     *)

\* C2: when Play(A), Stop, Play(B) are what the channel holds as a drain cycle
\* starts, the cycle handles just these three and both files load, the status
\* at the end of the cycle is Playing with current_song = B.
C2_CommandOrdering ==
    (/\ apc = "check"
     /\ cycle.atStart # <<>>
     /\ cycle.handled = 3
     /\ ~cycle.loadFailed)
        => /\ status.state = "Playing"
           /\ status.current_song = Some(cycle.atStart[3].arg)

\* C2 witness: such a cycle with two different files has ended on the second.
C2_Witness ==
    /\ apc = "check"
    /\ cycle.atStart # <<>>
    /\ cycle.atStart[1].arg # cycle.atStart[3].arg
    /\ cycle.handled = 3
    /\ ~cycle.loadFailed
    /\ status.state = "Playing"
    /\ status.current_song = Some(cycle.atStart[3].arg)

\* C8: when the audio thread handles SetVolume(v), the volume it records in
\* the status and the volume of a live sink are v clamped to [0, 1].
C8_VolumeClamp ==
    [][(/\ apc = "drain"
        /\ chan # <<>>
        /\ Head(chan).cmd = "SetVolume"
        /\ chan' = Tail(chan))
          => /\ status'.volume = clamp01(Head(chan).arg)
             /\ sink'.live => sink'.volume = clamp01(Head(chan).arg)]_vars

\* C18: whenever the audio thread has a live sink, the sink volume is the
\* status volume: a SetVolume outlives every later Play, and one received
\* while there is no sink applies to the next track.  Stated for status
\* volumes inside [0, 1], where clamping plays no part.
C18_VolumePersists ==
    (sink.live /\ status.volume \in 0..10) => sink.volume = status.volume

\* C16: once the audio thread has taken a Quit, or has found the channel
\* disconnected, it starts no further polling iteration.
C16_ShutdownEndsLoop ==
    [][cycle.shutdown => ~(apc = "sleep" /\ apc' = "drain")]_vars

\* C27: in every PlaybackStatus the audio thread publishes after handling a
\* command or a track end, state is Stopped exactly when current_song is
\* None; this includes the status after a Play that failed to load.
C27_StoppedIffNoSong ==
    (status.state = "Stopped") <=> (status.current_song = NoneOpt)

-----------------------------------------------------------------------------
(* Claims about the App and the audio thread together, checked under       *)
(* SpecApp.                                                                *)

\* C5: one natural track end causes one advance: from the audio thread
\* reporting a finished track until it takes the next Play, the tick does not
\* advance after the tick or the user's Next has already advanced.
C5_OneAdvancePerTrackEnd == obs.adv # "double"

\* C6: with shuffle on, repeat None and N > 0 songs, the advances made since
\* shuffle was turned on return no position twice, and one of the first N
\* returns None.
C6_ShuffleOnceThenStop ==
    (obs.passOn /\ Len(app.filtered_songs) > 0)
        => /\ \A i, j \in 1..Len(obs.pass) :
                 (obs.pass[i] # NoneOpt /\ obs.pass[i] = obs.pass[j]) => i = j
           /\ Len(obs.pass) >= Len(app.filtered_songs)
                 => \E i \in 1..Len(app.filtered_songs) : obs.pass[i] = NoneOpt

\* C15: in playlist view, when a Play fails to load in the audio thread and
\* no other command is waiting, the status it leaves is one on which the tick
\* advances (check_and_handle_song_completion's test holds), whatever was
\* playing before.
C15_LoadFailureAdvances ==
    [][(/\ apc = "drain" /\ chan # <<>>
        /\ Head(chan).cmd = "Play"
        /\ chan' = Tail(chan) /\ chan' = <<>>
        /\ status'.state # "Playing"
        /\ app.view_mode = "Playlist")
          => song_completed(app', status')]_vars

\* C29: once the user has started the song at the selected position i with
\* play_selected_song (Enter in the song list), playback_state's
\* current_song_index is i.
C29_SelectSetsCurrentIndex ==
    [][(UiSelect /\ app.active_panel = "Songs"
          /\ app.selected_song_index < Len(app.filtered_songs))
         => ps'.current_song_index = app'.selected_song_index]_vars

-----------------------------------------------------------------------------
(* Claims about the GaplessPlayer control thread, checked under            *)
(* SpecGapless.                                                            *)

\* C3: commit after start: when a Next, a Previous or a song end has selected
\* a position and loading its track failed, current_song_index still holds
\* the value it had before.
C3_CommitAfterStart == gobs.failed => ps.current_song_index = gobs.before

\* C4: after a Stop handled with a non-empty playlist, and until the next
\* event is sent, the player stays stopped: nothing playing, no current song,
\* nothing in the sink.
C4_StoppedStaysStopped ==
    gobs.afterStop => /\ ~ps.is_playing
                      /\ gp.current_song = NoneOpt
                      /\ gp.sink.empty

\* C7: at the end of the playlist handle_song_end returns: the control
\* thread is never stuck on the mutex it holds, neither blocked nor panicked.
C7_SongEndReturns == gp.pc \notin {"deadlocked", "panicked"}

\* next_song_index(n) returns None in state s, whatever a shuffle would give
SequencerEnds(s, n) == \A p \in Shuffles(n) : next_song_index(s, n, p).ret = NoneOpt

\* C14: when the control thread handles a Next with a non-empty playlist and
\* the sequencer returns None, the player ends stopped: not playing, not
\* paused, no current song.
C14_NextAtEndStops ==
    [][(/\ gp.pc = "events" /\ gp.events # <<>>
        /\ Head(gp.events).cmd = "Next"
        /\ gp'.events = Tail(gp.events)
        /\ gp.playlist # <<>>
        /\ SequencerEnds(ps, Len(gp.playlist)))
          => /\ ~ps'.is_playing
             /\ ~ps'.is_paused
             /\ gp'.current_song = NoneOpt]_vars

\* The control thread handles event c in this step
GpHandles(c) ==
    /\ gp.pc = "events" /\ gp.events # <<>>
    /\ Head(gp.events).cmd = c
    /\ gp'.events = Tail(gp.events)

\* C19: Pause changes the player only when it is playing (it becomes paused)
\* and Play (resume) only when it is paused (it becomes playing); in every
\* other state the command leaves the flags and the current song as they were.
C19_PauseResumePreconditions ==
    [][/\ (GpHandles("Pause") /\ ps.is_playing) => (ps'.is_paused /\ ~ps'.is_playing)
       /\ (GpHandles("Play") /\ ps.is_paused) => (ps'.is_playing /\ ~ps'.is_paused)
       /\ (GpHandles("Pause") /\ ~ps.is_playing)
            => (ps' = ps /\ gp'.current_song = gp.current_song)
       /\ (GpHandles("Play") /\ ~ps.is_paused)
            => (ps' = ps /\ gp'.current_song = gp.current_song)]_vars

-----------------------------------------------------------------------------
(* Claims about the Playlist entity, checked under SpecPlaylist.           *)

\* Vec<SongId> holds no identity twice
NoDuplicates(s) == \A i, j \in 1..Len(s) : s[i] = s[j] => i = j

\* C22: a Playlist from Playlist::new or PlaylistBuilder::build holds no song
\* twice after any sequence of add_song, remove_song, move_song and clear;
\* add_song of an identity the playlist already holds returns an error and
\* leaves the playlist, its songs and updated_at included, as it was.
C22_NoDuplicateSongs ==
    /\ [](NoDuplicates(pl.song_ids))
    /\ [][(eres'.op = "add_song" /\ contains_song(pl, eres'.arg))
            => (~eres'.ok /\ pl' = pl)]_vars

\* C22 witness: add_song of a song the playlist held was refused at a time
\* later than the playlist's updated_at, the playlist holding two songs.
C22_Witness ==
    /\ eres.op = "add_song"
    /\ ~eres.ok
    /\ contains_song(pl, eres.arg)
    /\ Len(pl.song_ids) = 2
    /\ now > pl.updated_at

-----------------------------------------------------------------------------
(* Claims about the playlist use cases and repositories, checked under     *)
(* SpecStore.                                                              *)

\* The step is an execution of use case uc that directly follows a
\* successful execution of use case first for the same playlist and song
FollowsFor(first, uc) ==
    /\ ures.uc = first
    /\ ures.ok
    /\ ures'.uc = uc
    /\ ures'.calls = ures.calls + 1
    /\ ures'.playlist_id = ures.playlist_id
    /\ ures'.song_id = ures.song_id

\* C23: when AddSongToPlaylistUseCase is executed twice for the same playlist
\* and song, the second execution fails with the entity's business-rule error
\* and the playlist_songs rows are those the first execution left.
C23_SecondAddRefused ==
    [][FollowsFor("AddSong", "AddSong")
          => (~ures'.ok /\ ures'.err = "Domain"
              /\ db'.playlist_songs = db.playlist_songs)]_vars


\* C24: after any sequence of CreatePlaylistUseCase executions no two stored
\* playlists have the same name; an execution whose name, once trimmed as
\* Playlist::new trims it, equals a stored name fails and leaves the stored
\* playlists as they were.
C24_UniqueNames ==
    /\ [](\A r1, r2 \in db.playlists : r1.name = r2.name => r1 = r2)
    /\ [][(/\ ures'.uc = "CreatePlaylist"
           /\ ures'.calls = ures.calls + 1
           /\ exists_by_name(db, trim(ures'.name)))
            => (~ures'.ok /\ db'.playlists = db.playlists)]_vars


\* C25: a RemoveSongFromPlaylistUseCase execution that directly follows a
\* successful AddSongToPlaylistUseCase execution for the same playlist and
\* song succeeds; afterwards get_playlist_songs of the playlist lacks the
\* song and lists the other songs in the order it listed them before.
C25_AddThenRemove ==
    [][FollowsFor("AddSong", "RemoveSong")
          => /\ ures'.ok
             /\ get_playlist_songs(db', ures'.playlist_id)
                  = SelectSeq(get_playlist_songs(db, ures'.playlist_id),
                              LAMBDA s : s # ures'.song_id)]_vars


\* The playlist_songs rows of a playlist
RowsOf(d, playlist_id) == {r \in d.playlist_songs : r.playlist_id = playlist_id}

\* C30: after any sequence of Add and Remove use case executions and of
\* direct add_song_to_playlist and remove_song_from_playlist calls with a
\* position up to the current length, the positions of a playlist with n
\* songs are 0..n-1, each once; and adding a song the playlist lacks puts it
\* after the songs already there, so songs are listed in the order added.
C30_DensePositions ==
    /\ [](\A p \in PlaylistIds :
            /\ {r.position : r \in RowsOf(db, p)} = 0..(Cardinality(RowsOf(db, p)) - 1)
            /\ \A r1, r2 \in RowsOf(db, p) : r1.position = r2.position => r1 = r2)
    /\ [][(/\ ures'.uc = "AddSong"
           /\ ures'.calls = ures.calls + 1
           /\ ures'.ok
           /\ \A r \in RowsOf(db, ures'.playlist_id) : r.song_id # ures'.song_id)
            => get_playlist_songs(db', ures'.playlist_id)
                 = Append(get_playlist_songs(db, ures'.playlist_id), ures'.song_id)]_vars


====
